---- MODULE Spec2Model ----
(***************************************************************************)
(* Azure Managed Identity credential: the in-process token cache, the      *)
(* token provider (endpoint selection, request, response handling), the    *)
(* authenticate hook of the credential and the execute method of the       *)
(* validation node.                                                        *)
(*                                                                         *)
(* JavaScript strings whose characters the code inspects or concatenates   *)
(* (resource, clientId, cache keys, tokens, expires_on, decoded payloads)  *)
(* are tuples of one-character strings.  Strings the code only passes on   *)
(* are TLA+ strings.  A template string is the tuple of its parts.  A      *)
(* JavaScript object is a function whose domain is the set of its defined  *)
(* properties: a property that is undefined is not in the domain.          *)
(***************************************************************************)
EXTENDS Integers, Sequences, FiniteSets, TLC

\* ------------------------------------------------------------------ bounds

NumCallers == 2
MaxNow == 2

\* --------------------------------------------------------- JavaScript values

Str(s) == [type |-> "string", s |-> s]
Num(n) == [type |-> "number", nan |-> FALSE, n |-> n]
NaN == [type |-> "number", nan |-> TRUE, n |-> 0]
Bool(b) == [type |-> "boolean", b |-> b]

Range(f) == {f[x] : x \in DOMAIN f}

\* Truthy without the test: every string passes.
TruthyAlways(s) == TRUE

\* !s for a string s: the empty string is falsy.
Truthy(s) == Len(s) > 0

\* obj.name of an object whose property may be undefined.
Has(obj, name) == name \in DOMAIN obj

Digits == <<"0", "1", "2", "3", "4", "5", "6", "7", "8", "9">>
IsDigit(c) == \E i \in 1..10 : Digits[i] = c
DigitVal(c) == (CHOOSE i \in 1..10 : Digits[i] = c) - 1
IsSpace(c) == c \in {" ", "\t", "\n", "\r"}

RECURSIVE SkipSpace(_)
SkipSpace(s) == IF s # <<>> /\ IsSpace(Head(s)) THEN SkipSpace(Tail(s)) ELSE s

RECURSIVE ParseDigits(_, _)
ParseDigits(s, acc) ==
    IF s = <<>> \/ ~IsDigit(Head(s)) THEN acc
    ELSE ParseDigits(Tail(s), acc * 10 + DigitVal(Head(s)))

\* parseInt(s, 10): leading white space, an optional sign, then the longest
\* run of decimal digits; NaN when there is no digit.
parseInt(s) ==
    LET t == SkipSpace(s)
        neg == t # <<>> /\ Head(t) = "-"
        u == IF t # <<>> /\ Head(t) \in {"-", "+"} THEN Tail(t) ELSE t
    IN IF u = <<>> \/ ~IsDigit(Head(u)) THEN NaN
       ELSE Num(IF neg THEN 0 - ParseDigits(u, 0) ELSE ParseDigits(u, 0))

\* a - b and a < b on JavaScript numbers: NaN propagates through the
\* subtraction and every comparison with NaN is false.
JsSub(a, b) == IF a.nan \/ b.nan THEN NaN ELSE Num(a.n - b.n)
JsLess(a, b) == ~a.nan /\ ~b.nan /\ a.n < b.n

\* ------------------------------------------------------------- token cache

TOKEN_REFRESH_MARGIN_S == 300

CachedToken(accessToken, expiresOn) ==
    [accessToken |-> accessToken, expiresOn |-> expiresOn]

getCacheKey(resource, clientId) == resource \o <<"|">> \o clientId

\* Map.prototype.set and Map.prototype.delete on the cache.
MapSet(cache, key, entry) ==
    [k \in DOMAIN cache \cup {key} |-> IF k = key THEN entry ELSE cache[k]]
MapDelete(cache, key) == [k \in DOMAIN cache \ {key} |-> cache[k]]

\* getCachedToken without the margin: an entry is stale only once expired.
getCachedTokenNoMargin(cache, resource, clientId, nowS) ==
    LET key == getCacheKey(resource, clientId)
    IN IF key \notin DOMAIN cache
       THEN [hit |-> FALSE, token |-> <<>>, cache |-> cache]
       ELSE IF JsLess(JsSub(cache[key].expiresOn, Num(nowS)), Num(0))
            THEN [hit |-> FALSE, token |-> <<>>, cache |-> MapDelete(cache, key)]
            ELSE [hit |-> TRUE, token |-> cache[key].accessToken, cache |-> cache]

\* getCachedToken that clears the whole cache when it finds a stale entry.
getCachedTokenClearsAll(cache, resource, clientId, nowS) ==
    LET key == getCacheKey(resource, clientId)
    IN IF key \notin DOMAIN cache
       THEN [hit |-> FALSE, token |-> <<>>, cache |-> cache]
       ELSE IF JsLess(JsSub(cache[key].expiresOn, Num(nowS)), Num(TOKEN_REFRESH_MARGIN_S))
            THEN [hit |-> FALSE, token |-> <<>>, cache |-> <<>>]
            ELSE [hit |-> TRUE, token |-> cache[key].accessToken, cache |-> cache]

\* getCachedToken that returns absent for a stale entry and keeps it.
getCachedTokenKeepsStale(cache, resource, clientId, nowS) ==
    LET key == getCacheKey(resource, clientId)
    IN IF key \notin DOMAIN cache
       THEN [hit |-> FALSE, token |-> <<>>, cache |-> cache]
       ELSE IF JsLess(JsSub(cache[key].expiresOn, Num(nowS)), Num(TOKEN_REFRESH_MARGIN_S))
            THEN [hit |-> FALSE, token |-> <<>>, cache |-> cache]
            ELSE [hit |-> TRUE, token |-> cache[key].accessToken, cache |-> cache]

\* getCachedToken that counts an entry with exactly the margin left as stale.
getCachedTokenAtMostMargin(cache, resource, clientId, nowS) ==
    LET key == getCacheKey(resource, clientId)
    IN IF key \notin DOMAIN cache
       THEN [hit |-> FALSE, token |-> <<>>, cache |-> cache]
       ELSE IF JsLess(JsSub(cache[key].expiresOn, Num(nowS)),
                      Num(TOKEN_REFRESH_MARGIN_S + 1))
            THEN [hit |-> FALSE, token |-> <<>>, cache |-> MapDelete(cache, key)]
            ELSE [hit |-> TRUE, token |-> cache[key].accessToken, cache |-> cache]

\* getCachedToken: the value returned (hit, token) and the cache it leaves.
getCachedToken(cache, resource, clientId, nowS) ==
    LET key == getCacheKey(resource, clientId)
    IN IF key \notin DOMAIN cache
       THEN [hit |-> FALSE, token |-> <<>>, cache |-> cache]
       ELSE IF JsLess(JsSub(cache[key].expiresOn, Num(nowS)), Num(TOKEN_REFRESH_MARGIN_S))
            THEN [hit |-> FALSE, token |-> <<>>, cache |-> MapDelete(cache, key)]
            ELSE [hit |-> TRUE, token |-> cache[key].accessToken, cache |-> cache]

\* ---------------------------------------------------------- token provider

IMDS_ENDPOINT == "http://169.254.169.254/metadata/identity/oauth2/token"

\* SearchParams that sets client_id whatever the client id is.
SearchParamsAlwaysClientId(apiVersion, resource, clientId) ==
    <<<<"api-version", Str(apiVersion)>>, <<"resource", Str(resource)>>,
      <<"client_id", Str(clientId)>>>>

\* new URLSearchParams({...}) followed by the conditional params.set.
SearchParams(apiVersion, resource, clientId) ==
    <<<<"api-version", Str(apiVersion)>>, <<"resource", Str(resource)>>>>
    \o (IF Truthy(clientId) THEN <<<<"client_id", Str(clientId)>>>> ELSE <<>>)

fetchTokenFromAppService(resource, clientId, identityEndpoint, identityHeader) ==
    [url |-> identityEndpoint,
     params |-> SearchParams("2019-08-01", resource, clientId),
     method |-> "GET",
     headers |-> ("X-IDENTITY-HEADER" :> identityHeader)]

fetchTokenFromImds(resource, clientId) ==
    [url |-> IMDS_ENDPOINT,
     params |-> SearchParams("2018-02-01", resource, clientId),
     method |-> "GET",
     headers |-> ("Metadata" :> "true")]

\* useAppServiceEndpoint testing only that both variables are defined.
useAppServiceEndpointIfDefined(environment) ==
    /\ Has(environment, "IDENTITY_ENDPOINT")
    /\ Has(environment, "IDENTITY_HEADER")

\* identityEndpoint && identityHeader: both defined and both non-empty.
useAppServiceEndpoint(environment) ==
    /\ Has(environment, "IDENTITY_ENDPOINT")
    /\ environment["IDENTITY_ENDPOINT"] # ""
    /\ Has(environment, "IDENTITY_HEADER")
    /\ environment["IDENTITY_HEADER"] # ""

\* The request fetchToken issues: the protocol is chosen from the environment
\* as it is when the call starts.
fetchTokenRequest(environment, resource, clientId) ==
    IF useAppServiceEndpoint(environment)
    THEN fetchTokenFromAppService(resource, clientId,
             environment["IDENTITY_ENDPOINT"], environment["IDENTITY_HEADER"])
    ELSE fetchTokenFromImds(resource, clientId)

ResponseOk(status) == 200 <= status /\ status <= 299

\* fetchTokenError naming IMDS whatever the protocol was.
fetchTokenErrorOneSource(appService, status, body) ==
    [name |-> "Error",
     message |-> <<"Failed to acquire managed identity token from ", "VM IMDS",
                   " (HTTP ", ToString(status), "): ", body>>]

\* The error fetchToken throws on a response that is not ok.  `appService`
\* is the value of useAppServiceEndpoint computed when the call started.
fetchTokenError(appService, status, body) ==
    [name |-> "Error",
     message |-> <<"Failed to acquire managed identity token from ",
                   IF appService THEN "App Service/Container Apps" ELSE "VM IMDS",
                   " (HTTP ", ToString(status), "): ", body>>]

\* fetchTokenStore that forgets the store.
fetchTokenStoreNothing(cache, resource, clientId, data) == cache

\* fetchTokenStore that keeps an entry the key already has.
fetchTokenStoreIfAbsent(cache, resource, clientId, data) ==
    IF getCacheKey(resource, clientId) \in DOMAIN cache THEN cache
    ELSE MapSet(cache, getCacheKey(resource, clientId),
                CachedToken(data.access_token, parseInt(data.expires_on)))

\* fetchTokenStore that keeps an entry that expires later than the response.
fetchTokenStoreKeepsFresher(cache, resource, clientId, data) ==
    LET key == getCacheKey(resource, clientId)
        entry == CachedToken(data.access_token, parseInt(data.expires_on))
    IN IF key \in DOMAIN cache /\ JsLess(entry.expiresOn, cache[key].expiresOn)
       THEN cache
       ELSE MapSet(cache, key, entry)

\* fetchTokenStore that stores tokens of three segments only.
fetchTokenStoreThreeSegments(cache, resource, clientId, data) ==
    IF Cardinality({i \in DOMAIN data.access_token : data.access_token[i] = "."}) = 2
    THEN MapSet(cache, getCacheKey(resource, clientId),
                CachedToken(data.access_token, parseInt(data.expires_on)))
    ELSE cache

\* The cache after fetchToken has parsed a successful response body.
fetchTokenStore(cache, resource, clientId, data) ==
    MapSet(cache, getCacheKey(resource, clientId),
           CachedToken(data.access_token, parseInt(data.expires_on)))

\* ---------------------------------------------------------- claims decoder

\* String.prototype.split on a one-character separator: the pieces between
\* consecutive occurrences of the separator, the ends included.
Split(s, sep) ==
    LET at == {i \in 1..Len(s) : s[i] = sep}
        cut(k) == IF k = 0 THEN 0
                  ELSE IF k = Cardinality(at) + 1 THEN Len(s) + 1
                  ELSE CHOOSE i \in at : Cardinality({j \in at : j < i}) = k - 1
    IN [k \in 1..(Cardinality(at) + 1) |-> SubSeq(s, cut(k - 1) + 1, cut(k) - 1)]

Base64UrlAlphabet ==
    <<"A","B","C","D","E","F","G","H","I","J","K","L","M","N","O","P","Q","R","S","T","U","V","W","X","Y","Z",
      "a","b","c","d","e","f","g","h","i","j","k","l","m","n","o","p","q","r","s","t","u","v","w","x","y","z",
      "0","1","2","3","4","5","6","7","8","9","-","_">>

\* The characters of code points 32..126 (96, the grave accent, by name).
Ascii ==
    <<" ","!","\"","#","$","%","&","'","(",")","*","+",",","-",".","/","0","1","2","3","4","5","6","7","8","9",
      ":",";","<","=",">","?","@","A","B","C","D","E","F","G","H","I","J","K","L","M","N","O","P","Q","R","S",
      "T","U","V","W","X","Y","Z","[","\\","]","^","_","GRAVE","a","b","c","d","e","f","g","h","i","j","k","l","m",
      "n","o","p","q","r","s","t","u","v","w","x","y","z","{","|","}","~">>

IsBase64Url(c) == \E i \in 1..64 : Base64UrlAlphabet[i] = c
SextetOf(c) == (CHOOSE i \in 1..64 : Base64UrlAlphabet[i] = c) - 1

\* The 6-bit values of the characters of the alphabet, the others skipped.
Sextets(s) ==
    LET kept == SelectSeq(s, IsBase64Url)
    IN [i \in 1..Len(kept) |-> SextetOf(kept[i])]

Pow2(k) == CASE k = 0 -> 1 [] k = 2 -> 4 [] k = 4 -> 16

\* Buffer.from(segment, 'base64url').toString(): characters outside the
\* alphabet are skipped, every full group of 8 bits is a byte, a byte
\* outside 32..126 decodes to a character that is no JSON syntax.
Base64UrlDecode(segment) ==
    LET v == Sextets(segment)
        nBytes == (6 * Len(v)) \div 8
        byte(i) == LET j == (8 * i) \div 6 + 1
                       o == (8 * i) % 6
                   IN ((v[j] * 64 + v[j + 1]) \div Pow2(4 - o)) % 256
        char(b) == IF 32 <= b /\ b <= 126 THEN Ascii[b - 31] ELSE "?"
    IN [i \in 1..nBytes |-> char(byte(i - 1))]

\* Three payloads that between them carry every claim of JwtClaims but aud,
\* as text and as JSON.parse reads them.
IdentityClaimsText ==
    <<"{","\"","i","s","s","\"",":","\"","i","\"",",","\"","i","a","t","\"",":","0",",","\"","s","u","b",
      "\"",":","\"","s","\"",",","\"","o","i","d","\"",":","\"","o","\"","}">>
IdentityClaims ==
    ("iss" :> Str(<<"i">>)) @@ ("iat" :> Num(0)) @@ ("sub" :> Str(<<"s">>))
    @@ ("oid" :> Str(<<"o">>))
TenantClaimsText ==
    <<"{","\"","n","b","f","\"",":","1",",","\"","t","i","d","\"",":","\"","t","\"",",","\"","a","p","p",
      "i","d","\"",":","\"","p","\"",",","\"","i","d","t","y","p","\"",":","\"","y","\"","}">>
TenantClaims ==
    ("nbf" :> Num(1)) @@ ("tid" :> Str(<<"t">>)) @@ ("appid" :> Str(<<"p">>))
    @@ ("idtyp" :> Str(<<"y">>))
VersionClaimsText ==
    <<"{","\"","e","x","p","\"",":","2",",","\"","v","e","r","\"",":","\"","v","\"",",","\"","x","m","s",
      "_","m","i","r","i","d","\"",":","\"","m","\"","}">>
VersionClaims ==
    ("exp" :> Num(2)) @@ ("ver" :> Str(<<"v">>)) @@ ("xms_mirid" :> Str(<<"m">>))

\* JSON.parse on the payload texts of the tokens the model issues; any other
\* text of those payloads is no JSON.
JsonParse(text) ==
    CASE text = <<"{","}">> ->
           [kind |-> "object", value |-> <<>>]
      [] text = <<"{","\"","a","u","d","\"",":","\"","a","\"","}">> ->
           [kind |-> "object", value |-> ("aud" :> Str(<<"a">>))]
      [] text = <<"n","u","l","l">> ->
           [kind |-> "null", value |-> <<>>]
      [] text = <<"{","\"","i","a","t","\"",":","0","}">> ->
           [kind |-> "object", value |-> ("iat" :> Num(0))]
      [] text = IdentityClaimsText ->
           [kind |-> "object", value |-> IdentityClaims]
      [] text = TenantClaimsText ->
           [kind |-> "object", value |-> TenantClaims]
      [] text = VersionClaimsText ->
           [kind |-> "object", value |-> VersionClaims]
      [] OTHER ->
           [kind |-> "SyntaxError", value |-> <<>>]

\* decodeJwtPayload: the claims, or the error it throws.
decodeJwtPayload(token) ==
    LET parts == Split(token, ".")
    IN IF Len(parts) # 3
       THEN [ok |-> FALSE, claims |-> [kind |-> "none", value |-> <<>>],
             error |-> [name |-> "ApplicationError",
                        message |-> <<"Token is not a valid JWT (expected 3 segments)">>]]
       ELSE LET parsed == JsonParse(Base64UrlDecode(parts[2]))
            IN IF parsed.kind = "SyntaxError"
               THEN [ok |-> FALSE, claims |-> [kind |-> "none", value |-> <<>>],
                     error |-> [name |-> "SyntaxError",
                                message |-> <<"Unexpected token in JSON">>]]
               ELSE [ok |-> TRUE, claims |-> parsed,
                     error |-> [name |-> "none", message |-> <<>>]]

\* Number.prototype.toString padded with zeros to `width` digits.
RECURSIVE PadDigits(_, _)
PadDigits(n, width) ==
    IF width = 0 THEN <<>>
    ELSE Append(PadDigits(n \div 10, width - 1), Digits[(n % 10) + 1])

\* new Date(epoch * 1000).toISOString() for a whole number of seconds: the
\* civil date of the day count, the time of day, and no milliseconds.
toISOString(epoch) ==
    LET days == epoch \div 86400
        rest == epoch % 86400
        z == days + 719468
        era == z \div 146097
        doe == z - era * 146097
        yoe == (doe - doe \div 1460 + doe \div 36524 - doe \div 146096) \div 365
        doy == doe - (365 * yoe + yoe \div 4 - yoe \div 100)
        mp == (5 * doy + 2) \div 153
        d == doy - (153 * mp + 2) \div 5 + 1
        m == IF mp < 10 THEN mp + 3 ELSE mp - 9
        y == yoe + era * 400 + (IF m <= 2 THEN 1 ELSE 0)
    IN PadDigits(y, 4) \o <<"-">> \o PadDigits(m, 2) \o <<"-">> \o PadDigits(d, 2)
       \o <<"T">> \o PadDigits(rest \div 3600, 2)
       \o <<":">> \o PadDigits((rest \div 60) % 60, 2)
       \o <<":">> \o PadDigits(rest % 60, 2)
       \o <<".", "0", "0", "0", "Z">>

\* epochToIso that reads an undefined claim as the epoch 0.
epochToIsoZeroDefault(claims, name) ==
    IF ~Has(claims, name)
    THEN [ok |-> TRUE, defined |-> TRUE, value |-> Str(toISOString(0))]
    ELSE LET e == claims[name]
         IN IF e.type = "number" /\ ~e.nan
            THEN [ok |-> TRUE, defined |-> TRUE, value |-> Str(toISOString(e.n))]
            ELSE [ok |-> FALSE, defined |-> FALSE, value |-> Str(<<>>)]

\* epochToIso applied to claims[name]: undefined stays undefined (defined =
\* FALSE); a value that is no number makes an invalid Date, whose
\* toISOString throws RangeError.
epochToIso(claims, name) ==
    IF ~Has(claims, name)
    THEN [ok |-> TRUE, defined |-> FALSE, value |-> Str(<<>>)]
    ELSE LET e == claims[name]
         IN IF e.type = "number" /\ ~e.nan
            THEN [ok |-> TRUE, defined |-> TRUE, value |-> Str(toISOString(e.n))]
            ELSE [ok |-> FALSE, defined |-> FALSE, value |-> Str(<<>>)]

\* ------------------------------------------------------- validation output

NodeOperationError(message) == [name |-> "NodeOperationError", message |-> message]

\* The error execute throws for a failure inside its try block.
AcquireOrDecodeError(error) ==
    NodeOperationError(<<"Failed to acquire or decode managed identity token", ": ">>
                       \o error.message)

\* Output field and the claim it is read from.
PlainFields ==
    {<<"audience", "aud">>, <<"issuer", "iss">>, <<"tenantId", "tid">>,
     <<"objectId", "oid">>, <<"appId", "appid">>, <<"subject", "sub">>,
     <<"identityType", "idtyp">>, <<"tokenVersion", "ver">>,
     <<"managedIdentityResourceId", "xms_mirid">>}
EpochFields ==
    {<<"issuedAt", "iat">>, <<"notBefore", "nbf">>, <<"expiresAt", "exp">>}

ClaimOf(fields, out) == (CHOOSE f \in fields : f[1] = out)[2]

\* ValidateResult that adds accessToken whatever the flag is.
ValidateResultWithToken(claims, token, includeToken) ==
    LET plain == {f[1] : f \in {g \in PlainFields : Has(claims, g[2])}}
        epoch == {f[1] : f \in {g \in EpochFields : epochToIso(claims, g[2]).defined}}
        names == {"success", "accessToken"} \cup plain \cup epoch
    IN [k \in names |->
          CASE k = "success" -> Bool(TRUE)
            [] k = "accessToken" -> Str(token)
            [] k \in plain -> claims[ClaimOf(PlainFields, k)]
            [] OTHER -> epochToIso(claims, ClaimOf(EpochFields, k)).value]

\* The result object of execute, as returnJsonArray hands it on.
ValidateResult(claims, token, includeToken) ==
    LET plain == {f[1] : f \in {g \in PlainFields : Has(claims, g[2])}}
        epoch == {f[1] : f \in {g \in EpochFields : epochToIso(claims, g[2]).defined}}
        names == {"success"} \cup plain \cup epoch
                 \cup (IF includeToken THEN {"accessToken"} ELSE {})
    IN [k \in names |->
          CASE k = "success" -> Bool(TRUE)
            [] k = "accessToken" -> Str(token)
            [] k \in plain -> claims[ClaimOf(PlainFields, k)]
            [] OTHER -> epochToIso(claims, ClaimOf(EpochFields, k)).value]

\* ExecuteWithToken with the decoding outside the try block.
ExecuteWithTokenUnwrapped(token, includeToken) ==
    LET dec == decodeJwtPayload(token)
    IN IF ~dec.ok
       THEN [kind |-> "thrown", value |-> <<>>, error |-> dec.error]
       ELSE [kind |-> "returned",
             value |-> ValidateResult(dec.claims.value, token, includeToken),
             error |-> [name |-> "none", message |-> <<>>]]

\* execute from the token fetchToken returned to its own return or throw.
ExecuteWithToken(token, includeToken) ==
    LET dec == decodeJwtPayload(token)
    IN IF ~dec.ok
       THEN [kind |-> "thrown", value |-> <<>>, error |-> AcquireOrDecodeError(dec.error)]
       ELSE IF dec.claims.kind = "null"
       THEN [kind |-> "thrown", value |-> <<>>,
             error |-> [name |-> "TypeError",
                        message |-> <<"Cannot read properties of null (reading 'aud')">>]]
       ELSE IF \E f \in EpochFields : ~epochToIso(dec.claims.value, f[2]).ok
       THEN [kind |-> "thrown", value |-> <<>>,
             error |-> [name |-> "RangeError", message |-> <<"Invalid time value">>]]
       ELSE [kind |-> "returned",
             value |-> ValidateResult(dec.claims.value, token, includeToken),
             error |-> [name |-> "none", message |-> <<>>]]

\* ------------------------------------------------------------ authenticate

Bearer(token) == <<"Bearer ", token>>

\* AuthHeaders with the spread last: a header that came in wins.
AuthHeadersSpreadLast(requestOptions, token) ==
    (IF Has(requestOptions, "headers") THEN requestOptions["headers"] ELSE <<>>)
    @@ ("Authorization" :> Bearer(token))

\* { ...requestOptions.headers, Authorization: `Bearer ${token}` }
AuthHeaders(requestOptions, token) ==
    ("Authorization" :> Bearer(token))
    @@ (IF Has(requestOptions, "headers") THEN requestOptions["headers"] ELSE <<>>)

\* requestOptions after authenticate has assigned its headers.
AuthResult(requestOptions, token) ==
    [kind |-> "returned",
     value |-> ("headers" :> AuthHeaders(requestOptions, token)) @@ requestOptions,
     error |-> [name |-> "none", message |-> <<>>]]

ResourceRequiredError ==
    [name |-> "Error",
     message |-> <<"Azure Managed Identity credential: \"", "Resource / Audience",
                   "\" is required.">>]

MissingResourceError ==
    NodeOperationError(<<"The configured credential is missing \"", "Resource / Audience",
                         "\".">>)

\* credentials.resource as string (undefined is as falsy as '').
ResourceOf(credentials) ==
    IF Has(credentials, "resource") THEN credentials["resource"] ELSE <<>>

\* (credentials.clientId as string) || ''
ClientIdOf(credentials) ==
    IF Has(credentials, "clientId") THEN credentials["clientId"] ELSE <<>>

\* --------------------------------------------------------------- the inputs

Procs == 1..NumCallers

\* The credentials of the deployment: resource missing or empty, resource
\* "a" (system-assigned, and with the client id "b|"), and resource "a|b".
CredentialSet ==
    {<<>>,
     ("resource" :> <<>>),
     ("resource" :> <<>>) @@ ("clientId" :> <<"b", "|">>),
     ("resource" :> <<"a">>),
     ("resource" :> <<"a">>) @@ ("clientId" :> <<>>),
     ("resource" :> <<"a">>) @@ ("clientId" :> <<"b", "|">>),
     ("resource" :> <<"a", "|", "b">>)}

RequestOptionsSet ==
    {[url |-> "https://example.com", method |-> "GET"],
     [url |-> "https://example.com", method |-> "GET",
      headers |-> ("Accept" :> <<"application/json">>)
                  @@ ("Authorization" :> <<"Basic ", <<"o", "l", "d">>>>)]}

\* process.env: each variable unset, set to the empty string, or set.
EnvSet ==
    LET endpoints == {"", "http://localhost:42356/msi/token"}
        headers == {"", "test-header"}
    IN {<<>>}
       \cup {("IDENTITY_ENDPOINT" :> e) : e \in endpoints}
       \cup {("IDENTITY_HEADER" :> h) : h \in headers}
       \cup {("IDENTITY_ENDPOINT" :> e) @@ ("IDENTITY_HEADER" :> h) :
                e \in endpoints, h \in headers}

\* The two environments of the tests: App Service, and a VM.
TestEnvSet ==
    {("IDENTITY_ENDPOINT" :> "http://localhost:42356/msi/token")
        @@ ("IDENTITY_HEADER" :> "test-header"),
     <<>>}

\* response.status of an ok response; status and body text of the others.
OkStatuses == {200}
ErrorResponses == {<<403, "Forbidden">>, <<404, "Not Found">>}

\* h.eyJhdWQiOiJhIn0.s (payload {"aud":"a"}), h.e30.s (payload {}),
\* not-a-jwt, h.eA.s (payload x, no JSON).
JwtAud == <<"h", ".", "e", "y", "J", "h", "d", "W", "Q", "i", "O", "i", "J", "h", "I", "n", "0", ".", "s">>
JwtEmpty == <<"h", ".", "e", "3", "0", ".", "s">>
NotAJwt == <<"n", "o", "t", "-", "a", "-", "j", "w", "t">>
JwtBadPayload == <<"h", ".", "e", "A", ".", "s">>

AccessTokens == {JwtAud, JwtEmpty, NotAJwt, JwtBadPayload}

\* h.eyJpYXQiOjB9.s (payload {"iat":0}), the tokens whose payloads are
\* IdentityClaimsText, TenantClaimsText and VersionClaimsText, and a.b.c.d.
JwtIat == <<"h",".","e","y","J","p","Y","X","Q","i","O","j","B","9",".","s">>
JwtIdentity ==
    <<"h",".","e","y","J","p","c","3","M","i","O","i","J","p","I","i","w","i","a","W","F","0","I","j","o",
      "w","L","C","J","z","d","W","I","i","O","i","J","z","I","i","w","i","b","2","l","k","I","j","o","i",
      "b","y","J","9",".","s">>
JwtTenant ==
    <<"h",".","e","y","J","u","Y","m","Y","i","O","j","E","s","I","n","R","p","Z","C","I","6","I","n","Q",
      "i","L","C","J","h","c","H","B","p","Z","C","I","6","I","n","A","i","L","C","J","p","Z","H","R","5",
      "c","C","I","6","I","n","k","i","f","Q",".","s">>
JwtVersion ==
    <<"h",".","e","y","J","l","e","H","A","i","O","j","I","s","I","n","Z","l","c","i","I","6","I","n","Y",
      "i","L","C","J","4","b","X","N","f","b","W","l","y","a","W","Q","i","O","i","J","t","I","n","0",".",
      "s">>
FourSegments == <<"a", ".", "b", ".", "c", ".", "d">>

DecoderTokens ==
    AccessTokens \cup {JwtIat, JwtIdentity, JwtTenant, JwtVersion, FourSegments}

ExpiresOnValues == {<<"1", "0", "0">>, <<"3", "0", "1">>, <<"s", "o", "o", "n">>}

ResponsesOf(tokens, expiries) ==
    {[access_token |-> t, expires_on |-> e] : t \in tokens, e \in expiries}

\* ---------------------------------------------------------------- the state

VARIABLES
    tokenCache,   \* the Map of the credentials module
    now,          \* Math.floor(Date.now() / 1000)
    env,          \* process.env, the two variables fetchToken reads
    call,         \* per caller: the invocation that awaits its fetch
    done,         \* the invocation that returned or threw in this step
    prev          \* the authenticate call that has just filled an absent entry

vars == <<tokenCache, now, env, call, done, prev>>

NoError == [name |-> "none", message |-> <<>>]
NoResult == [kind |-> "none", value |-> <<>>, error |-> NoError]
NoData == [access_token |-> <<>>, expires_on |-> <<>>]
NoEntry == [present |-> FALSE, accessToken |-> <<>>, expiresOn |-> NaN]
NoPrev ==
    [valid |-> FALSE, resource |-> <<>>, clientId |-> <<>>,
     accessToken |-> <<>>, expiresOn |-> NaN, calls |-> 0, at |-> 0,
     appService |-> FALSE]

\* lookups: calls of getCachedToken; absent: the lookup found no entry;
\* nowS and found: the clock and the entry of a lookup that returned a token;
\* sent: the requests handed to fetch; after: the call this one follows, and
\* the clock of this call's lookup (at).
IdleCall ==
    [pc |-> "idle", op |-> "none", resource |-> <<>>, clientId |-> <<>>,
     requestOptions |-> <<>>, includeToken |-> FALSE,
     lookups |-> 0, absent |-> FALSE, nowS |-> 0, found |-> NoEntry,
     appService |-> FALSE, sent |-> <<>>, after |-> NoPrev]

\* What a finished invocation leaves to look at: the invocation, the caller,
\* the response it consumed, what it returned or threw, and the entry its
\* key had before fetchToken stored the response (before).
NoDone ==
    [proc |-> 0, call |-> IdleCall, status |-> 0, body |-> "",
     fetched |-> FALSE, data |-> NoData, result |-> NoResult, before |-> NoEntry]

Finished(p, c, status, body, fetched, data, result) ==
    [proc |-> p, call |-> c, status |-> status, body |-> body,
     fetched |-> fetched, data |-> data, result |-> result, before |-> NoEntry]

InitOver(envs) ==
    /\ tokenCache = <<>>
    /\ now = 0
    /\ env \in envs
    /\ call = [p \in Procs |-> IdleCall]
    /\ done = NoDone
    /\ prev = NoPrev

\* The entry tokenCache.get finds for the key.
EntryOf(cache, resource, clientId) ==
    LET key == getCacheKey(resource, clientId)
    IN IF key \in DOMAIN cache
       THEN [present |-> TRUE, accessToken |-> cache[key].accessToken,
             expiresOn |-> cache[key].expiresOn]
       ELSE NoEntry

\* FetchStart that also asks IMDS when App Service was chosen.
FetchStartWithFallback(c, environment) ==
    [c EXCEPT !.pc = "fetching",
              !.appService = useAppServiceEndpoint(environment),
              !.sent = c.sent
                       \o <<fetchTokenRequest(environment, c.resource, c.clientId)>>
                       \o (IF useAppServiceEndpoint(environment)
                           THEN <<fetchTokenFromImds(c.resource, c.clientId)>>
                           ELSE <<>>)]

\* FetchStart that keeps the protocol of the fetch this call follows.
FetchStartRemembering(c, environment) ==
    LET useA == IF c.after.valid THEN c.after.appService
                ELSE useAppServiceEndpoint(environment)
        valueOf(name) == IF Has(environment, name) THEN environment[name] ELSE ""
    IN [c EXCEPT !.pc = "fetching",
                 !.appService = useA,
                 !.sent = Append(c.sent,
                             IF useA
                             THEN fetchTokenFromAppService(c.resource, c.clientId,
                                      valueOf("IDENTITY_ENDPOINT"),
                                      valueOf("IDENTITY_HEADER"))
                             ELSE fetchTokenFromImds(c.resource, c.clientId))]

\* fetchToken up to its first await: the protocol is chosen and the request
\* is handed to fetch.
FetchStart(c, environment) ==
    [c EXCEPT !.pc = "fetching",
              !.appService = useAppServiceEndpoint(environment),
              !.sent = Append(c.sent, fetchTokenRequest(environment, c.resource, c.clientId))]

Thrown(error) == [kind |-> "thrown", value |-> <<>>, error |-> error]

\* An error thrown by fetchToken: authenticate lets it through, execute
\* catches and wraps it.
FetchThrown(c, error) ==
    IF c.op = "execute" THEN Thrown(AcquireOrDecodeError(error)) ELSE Thrown(error)

\* The call that `prev` describes, if this call is for the same credential.
Follows(resource, clientId) ==
    IF prev.valid /\ prev.resource = resource /\ prev.clientId = clientId
    THEN [prev EXCEPT !.at = now] ELSE NoPrev

\* authenticate(credentials, requestOptions) up to its return, its throw or
\* the await of the fetch.
Authenticate(p, credentials, requestOptions) ==
    /\ call[p].pc = "idle"
    /\ LET resource == ResourceOf(credentials)
           clientId == ClientIdOf(credentials)
           c == [IdleCall EXCEPT !.op = "authenticate", !.resource = resource,
                                 !.clientId = clientId,
                                 !.requestOptions = requestOptions]
       IN IF ~Truthy(resource)
          THEN /\ done' = Finished(p, c, 0, "", FALSE, NoData, Thrown(ResourceRequiredError))
               /\ UNCHANGED <<tokenCache, call>>
          ELSE LET got == getCachedToken(tokenCache, resource, clientId, now)
                   entry == EntryOf(tokenCache, resource, clientId)
                   looked == [c EXCEPT !.lookups = 1, !.absent = ~entry.present,
                                       !.after = Follows(resource, clientId)]
               IN /\ tokenCache' = got.cache
                  /\ IF got.hit
                     THEN /\ done' = Finished(p,
                                        [looked EXCEPT !.nowS = now, !.found = entry],
                                        0, "", FALSE, NoData,
                                        AuthResult(requestOptions, got.token))
                          /\ UNCHANGED call
                     ELSE /\ call' = [call EXCEPT ![p] = FetchStart(looked, env)]
                          /\ done' = NoDone
    /\ prev' = NoPrev
    /\ UNCHANGED <<now, env>>

\* Execute that asks the cache before it fetches.
ExecuteFromCache(p, credentials, includeToken) ==
    /\ call[p].pc = "idle"
    /\ LET resource == ResourceOf(credentials)
           clientId == ClientIdOf(credentials)
           c == [IdleCall EXCEPT !.op = "execute", !.resource = resource,
                                 !.clientId = clientId,
                                 !.includeToken = includeToken]
       IN IF ~Truthy(resource)
          THEN /\ done' = Finished(p, c, 0, "", FALSE, NoData, Thrown(MissingResourceError))
               /\ UNCHANGED <<tokenCache, call>>
          ELSE LET got == getCachedToken(tokenCache, resource, clientId, now)
                   looked == [c EXCEPT !.lookups = 1]
               IN /\ tokenCache' = got.cache
                  /\ IF got.hit
                     THEN /\ done' = Finished(p, looked, 0, "", FALSE, NoData,
                                        ExecuteWithToken(got.token, includeToken))
                          /\ UNCHANGED call
                     ELSE /\ call' = [call EXCEPT ![p] = FetchStart(looked, env)]
                          /\ done' = NoDone
    /\ prev' = NoPrev
    /\ UNCHANGED <<now, env>>

\* execute, with the credentials getCredentials resolved to, up to its throw
\* or the await of the fetch.
Execute(p, credentials, includeToken) ==
    /\ call[p].pc = "idle"
    /\ LET resource == ResourceOf(credentials)
           clientId == ClientIdOf(credentials)
           c == [IdleCall EXCEPT !.op = "execute", !.resource = resource,
                                 !.clientId = clientId,
                                 !.includeToken = includeToken]
       IN IF ~Truthy(resource)
          THEN /\ done' = Finished(p, c, 0, "", FALSE, NoData, Thrown(MissingResourceError))
               /\ UNCHANGED call
          ELSE /\ call' = [call EXCEPT ![p] = FetchStart(c, env)]
               /\ done' = NoDone
    /\ prev' = NoPrev
    /\ UNCHANGED <<tokenCache, now, env>>

\* The fetch promise rejects: the request could not be made.
FetchReject(p) ==
    /\ call[p].pc = "fetching"
    /\ done' = Finished(p, call[p], 0, "", FALSE, NoData,
                  FetchThrown(call[p], [name |-> "TypeError", message |-> <<"fetch failed">>]))
    /\ call' = [call EXCEPT ![p] = IdleCall]
    /\ prev' = NoPrev
    /\ UNCHANGED <<tokenCache, now, env>>

\* FetchNotOk that clears the cache when the response is not ok.
FetchNotOkClearsCache(p, status, body) ==
    /\ call[p].pc = "fetching"
    /\ ~ResponseOk(status)
    /\ done' = Finished(p, call[p], status, body, FALSE, NoData,
                  FetchThrown(call[p], fetchTokenError(call[p].appService, status, body)))
    /\ call' = [call EXCEPT ![p] = IdleCall]
    /\ tokenCache' = <<>>
    /\ prev' = NoPrev
    /\ UNCHANGED <<now, env>>

\* The response is not ok and response.text() resolves: fetchToken throws.
\* (Nothing shared is read or written between the two awaits, so they are
\* one step.)
FetchNotOk(p, status, body) ==
    /\ call[p].pc = "fetching"
    /\ ~ResponseOk(status)
    /\ done' = Finished(p, call[p], status, body, FALSE, NoData,
                  FetchThrown(call[p], fetchTokenError(call[p].appService, status, body)))
    /\ call' = [call EXCEPT ![p] = IdleCall]
    /\ prev' = NoPrev
    /\ UNCHANGED <<tokenCache, now, env>>

\* The response is ok and response.json() rejects: the body is no JSON.
FetchJsonReject(p, status) ==
    /\ call[p].pc = "fetching"
    /\ ResponseOk(status)
    /\ done' = Finished(p, call[p], status, "", FALSE, NoData,
                  FetchThrown(call[p], [name |-> "SyntaxError",
                                        message |-> <<"Unexpected token in JSON">>]))
    /\ call' = [call EXCEPT ![p] = IdleCall]
    /\ prev' = NoPrev
    /\ UNCHANGED <<tokenCache, now, env>>

\* FetchOk whose authenticate looks the fetched token up again and fetches
\* once more when the lookup turns it down.
FetchOkChecksFreshness(p, status, data) ==
    /\ call[p].pc = "fetching"
    /\ ResponseOk(status)
    /\ LET stored == fetchTokenStore(tokenCache, call[p].resource, call[p].clientId, data)
           got == getCachedToken(stored, call[p].resource, call[p].clientId, now)
       IN IF call[p].op = "authenticate" /\ ~got.hit /\ Len(call[p].sent) < 2
          THEN /\ tokenCache' = got.cache
               /\ call' = [call EXCEPT ![p] = FetchStart(call[p], env)]
               /\ done' = NoDone
          ELSE /\ tokenCache' = stored
               /\ done' = [Finished(p, call[p], status, "", TRUE, data,
                               IF call[p].op = "execute"
                               THEN ExecuteWithToken(data.access_token, call[p].includeToken)
                               ELSE AuthResult(call[p].requestOptions, data.access_token))
                           EXCEPT !.before = EntryOf(tokenCache, call[p].resource,
                                                     call[p].clientId)]
               /\ call' = [call EXCEPT ![p] = IdleCall]
    /\ prev' = NoPrev
    /\ UNCHANGED <<now, env>>

\* The response is ok and response.json() resolves: fetchToken stores the
\* token and returns it, and the caller runs on to its end.
FetchOk(p, status, data) ==
    /\ call[p].pc = "fetching"
    /\ ResponseOk(status)
    /\ tokenCache' = fetchTokenStore(tokenCache, call[p].resource, call[p].clientId, data)
    /\ done' = [Finished(p, call[p], status, "", TRUE, data,
                    IF call[p].op = "execute"
                    THEN ExecuteWithToken(data.access_token, call[p].includeToken)
                    ELSE AuthResult(call[p].requestOptions, data.access_token))
                EXCEPT !.before = EntryOf(tokenCache, call[p].resource, call[p].clientId)]
    /\ call' = [call EXCEPT ![p] = IdleCall]
    /\ prev' = IF call[p].op = "authenticate" /\ call[p].absent
               THEN [valid |-> TRUE, resource |-> call[p].resource,
                     clientId |-> call[p].clientId,
                     accessToken |-> data.access_token,
                     expiresOn |-> parseInt(data.expires_on),
                     calls |-> Len(call[p].sent), at |-> 0,
                     appService |-> call[p].appService]
               ELSE NoPrev
    /\ UNCHANGED <<now, env>>

\* A second passes.
Tick ==
    /\ now < MaxNow
    /\ now' = now + 1
    /\ done' = NoDone
    /\ UNCHANGED <<tokenCache, env, call, prev>>

\* The host changes the environment.
SetEnv(e) ==
    /\ e # env
    /\ env' = e
    /\ done' = NoDone
    /\ UNCHANGED <<tokenCache, now, call, prev>>

\* The steps of the callers in `procs` for the given credentials, request
\* options, include flags and token responses.
CallSteps(procs, creds, options, includes, responses) ==
    \/ \E p \in procs, credentials \in creds, requestOptions \in options :
          Authenticate(p, credentials, requestOptions)
    \/ \E p \in procs, credentials \in creds, includeToken \in includes :
          Execute(p, credentials, includeToken)
    \/ \E p \in procs : FetchReject(p)
    \/ \E p \in procs, r \in ErrorResponses : FetchNotOk(p, r[1], r[2])
    \/ \E p \in procs, status \in OkStatuses : FetchJsonReject(p, status)
    \/ \E p \in procs, status \in OkStatuses, data \in responses : FetchOk(p, status, data)

\* One caller, every environment, every token.
Init == InitOver(EnvSet)

Next ==
    \/ CallSteps({1}, {c \in CredentialSet : ResourceOf(c) # <<"a", "|", "b">>},
                 RequestOptionsSet, BOOLEAN,
                 ResponsesOf(AccessTokens, {<<"3", "0", "1">>}))
    \/ Tick
    \/ \E e \in EnvSet : SetEnv(e)

Spec == Init /\ [][Next]_vars

\* One caller, every credential and every expiry, in the environments of the
\* tests.
InitCache == InitOver(TestEnvSet)

NextCache ==
    \/ CallSteps({1}, CredentialSet, RequestOptionsSet, BOOLEAN,
                 ResponsesOf({JwtAud, JwtEmpty}, ExpiresOnValues))
    \/ Tick

SpecCache == InitCache /\ [][NextCache]_vars

\* Concurrent callers for one credential.
InitConc == InitOver(TestEnvSet)

NextConc ==
    \/ CallSteps(Procs, {("resource" :> <<"a">>)},
                 {[url |-> "https://example.com", method |-> "GET"]}, {FALSE},
                 ResponsesOf({JwtAud}, {<<"1", "0", "0">>})
                    \cup ResponsesOf({JwtEmpty}, {<<"3", "0", "1">>}))
    \/ Tick

SpecConc == InitConc /\ [][NextConc]_vars

\* One caller, one credential (and the empty one), every token the decoder
\* is given.
InitDecode == InitOver(TestEnvSet)

NextDecode ==
    \/ CallSteps({1}, {("resource" :> <<>>), ("resource" :> <<"a">>)},
                 {[url |-> "https://example.com", method |-> "GET"]}, BOOLEAN,
                 ResponsesOf(DecoderTokens, {<<"3", "0", "1">>}))
    \/ Tick

SpecDecode == InitDecode /\ [][NextDecode]_vars

\* ------------------------------------------------------------------ claims

RequestParam(req, name) ==
    LET i == CHOOSE j \in DOMAIN req.params : req.params[j][1] = name
    IN req.params[i][2]

\* The request of Protocol A for the environment, and that of Protocol B.
IsProtocolA(req, environment) ==
    /\ Has(environment, "IDENTITY_ENDPOINT")
    /\ Has(environment, "IDENTITY_HEADER")
    /\ req.url = environment["IDENTITY_ENDPOINT"]
    /\ RequestParam(req, "api-version") = Str("2019-08-01")
    /\ Has(req.headers, "X-IDENTITY-HEADER")
    /\ req.headers["X-IDENTITY-HEADER"] = environment["IDENTITY_HEADER"]

IsProtocolB(req) ==
    /\ req.url = IMDS_ENDPOINT
    /\ RequestParam(req, "api-version") = Str("2018-02-01")
    /\ Has(req.headers, "Metadata")
    /\ req.headers["Metadata"] = "true"
    /\ ~Has(req.headers, "X-IDENTITY-HEADER")

\* Caller p's fetchToken starts in this step.
Starts(p) == call[p].pc = "idle" /\ call'[p].pc = "fetching"

IsSubstring(sub, s) ==
    \E i \in 1..(Len(s) - Len(sub) + 1) : SubSeq(s, i, i + Len(sub) - 1) = sub

\* An authenticate call that returned the request.
AuthReturned ==
    /\ done.call.op = "authenticate"
    /\ done.result.kind = "returned"

\* The lookup of the finished authenticate call returned a token.
CacheHit == AuthReturned /\ ~done.fetched

\* C1: the cache lookup never returns the token of an entry whose remaining
\* lifetime expiresOn - now, in whole seconds, is below the 300-second margin.
C1_NoStaleTokenReturned ==
    CacheHit =>
        /\ done.call.found.present
        /\ ~(/\ ~done.call.found.expiresOn.nan
             /\ done.call.found.expiresOn.n - done.call.nowS < 300)

\* A lookup found an entry below the margin and did not return it.
C1_Witness ==
    \E p \in Procs :
        /\ call[p].pc = "fetching"
        /\ call[p].lookups = 1
        /\ ~call[p].absent

\* C2: of two consecutive authenticate calls for one credential, the first
\* filling an absent entry: when the first expiry is at least the margin away
\* the pair makes one network call and the second call injects the first
\* token; when it is inside the margin the second call makes a second network
\* call and injects the token of that fetch.
C2_ConsecutiveCalls ==
    /\ \A p \in Procs :
          (call[p].pc = "fetching" /\ call[p].after.valid /\ ~call[p].after.expiresOn.nan)
              => /\ call[p].after.expiresOn.n - call[p].after.at < 300
                 /\ Len(call[p].sent) = 1
    /\ (done.call.op = "authenticate" /\ done.call.after.valid
            /\ ~done.call.after.expiresOn.nan)
         => LET a == done.call.after
            IN IF a.expiresOn.n - a.at >= 300
               THEN /\ done.result.kind = "returned"
                    /\ a.calls + Len(done.call.sent) = 1
                    /\ done.result.value["headers"]["Authorization"] = Bearer(a.accessToken)
               ELSE /\ a.calls + Len(done.call.sent) = 2
                    /\ done.fetched =>
                          /\ done.result.kind = "returned"
                          /\ done.result.value["headers"]["Authorization"]
                                = Bearer(done.data.access_token)

\* The second call refetched and injected a token other than the first.
C2_Witness ==
    /\ done.call.op = "authenticate"
    /\ done.call.after.valid
    /\ ~done.call.after.expiresOn.nan
    /\ done.call.after.expiresOn.n - done.call.after.at < 300
    /\ done.fetched
    /\ done.data.access_token # done.call.after.accessToken

\* The second call was served the first token from the cache.
C2_WitnessFresh ==
    /\ done.call.op = "authenticate"
    /\ done.call.after.valid
    /\ ~done.call.after.expiresOn.nan
    /\ done.call.after.expiresOn.n - done.call.after.at >= 300
    /\ done.result.kind = "returned"

\* A successful run of execute.
ExecuteReturned ==
    /\ done.call.op = "execute"
    /\ done.result.kind = "returned"

\* C3: a successful validation run without includeToken has no accessToken
\* field and the raw token in no field; with includeToken its accessToken is
\* the fetched token verbatim.
C3_TokenOnlyWhenIncluded ==
    ExecuteReturned =>
        LET out == done.result.value
            token == done.data.access_token
        IN IF done.call.includeToken
           THEN Has(out, "accessToken") /\ out["accessToken"] = Str(token)
           ELSE /\ ~Has(out, "accessToken")
                /\ \A k \in DOMAIN out :
                      out[k].type = "string" => ~IsSubstring(token, out[k].s)

\* A run without includeToken returned claims of the token.
C3_Witness ==
    /\ ExecuteReturned
    /\ ~done.call.includeToken
    /\ Has(done.result.value, "audience")

BothSet(environment) ==
    Has(environment, "IDENTITY_ENDPOINT") /\ Has(environment, "IDENTITY_HEADER")

BothNonEmpty(environment) ==
    /\ BothSet(environment)
    /\ environment["IDENTITY_ENDPOINT"] # ""
    /\ environment["IDENTITY_HEADER"] # ""

NotOkAnswered == done.proc # 0 /\ done.status # 0 /\ ~ResponseOk(done.status)

\* C5: on a status that is not ok the call fails with an error whose message
\* has the status, the body text and the source of the protocol that was
\* used.
C5_AcquisitionErrorMessage ==
    NotOkAnswered =>
        LET parts == Range(done.result.error.message)
            usedA == Has(done.call.sent[1].headers, "X-IDENTITY-HEADER")
        IN /\ done.result.kind = "thrown"
           /\ ToString(done.status) \in parts
           /\ done.body \in parts
           /\ IF usedA
              THEN "App Service/Container Apps" \in parts /\ "VM IMDS" \notin parts
              ELSE "VM IMDS" \in parts /\ "App Service/Container Apps" \notin parts
           /\ done.call.op = "authenticate" =>
                 done.result.error.message
                    = <<"Failed to acquire managed identity token from ",
                        IF usedA THEN "App Service/Container Apps" ELSE "VM IMDS",
                        " (HTTP ", ToString(done.status), "): ", done.body>>

\* authenticate failed on a 404 of IMDS while the environment is App Service.
C5_Witness ==
    /\ NotOkAnswered
    /\ done.call.op = "authenticate"
    /\ done.status = 404
    /\ IsProtocolB(done.call.sent[1])
    /\ BothNonEmpty(env)

\* The call that finishes in this step had an empty or missing resource.
EmptyResourceDone == done'.proc # 0 /\ ~(Len(done'.call.resource) > 0)

\* C6: with an empty or missing resource both entry points fail at once with
\* an error that names "Resource / Audience"; no request is issued and the
\* cache is neither read nor changed.
C6_EmptyResourceFailsFirst ==
    [][EmptyResourceDone =>
          /\ done'.result.kind = "thrown"
          /\ "Resource / Audience" \in Range(done'.result.error.message)
          /\ done'.call.sent = <<>>
          /\ done'.call.lookups = 0
          /\ call[done'.proc].pc = "idle"
          /\ call' = call
          /\ tokenCache' = tokenCache]_vars

\* execute failed on an empty resource while a token is cached.
C6_Witness ==
    /\ done.proc # 0
    /\ done.call.op = "execute"
    /\ done.call.resource = <<>>
    /\ done.result.error.name = "NodeOperationError"
    /\ DOMAIN tokenCache # {}

\* The token the finished authenticate call obtained.
ObtainedToken ==
    IF done.fetched THEN done.data.access_token ELSE done.call.found.accessToken

HeadersOf(requestOptions) ==
    IF Has(requestOptions, "headers") THEN requestOptions["headers"] ELSE <<>>

\* C7: a successful authenticate call returns the request with Authorization
\* set to Bearer and the token it obtained, every other header as it came in,
\* and an Authorization header that came in replaced.
C7_OnlyAuthorizationChanges ==
    AuthReturned =>
        LET in == done.call.requestOptions
            out == done.result.value
        IN /\ DOMAIN out = DOMAIN in \cup {"headers"}
           /\ \A k \in DOMAIN in \ {"headers"} : out[k] = in[k]
           /\ DOMAIN out["headers"] = DOMAIN HeadersOf(in) \cup {"Authorization"}
           /\ out["headers"]["Authorization"] = Bearer(ObtainedToken)
           /\ \A h \in DOMAIN HeadersOf(in) \ {"Authorization"} :
                 out["headers"][h] = HeadersOf(in)[h]

\* A request that came in with Authorization and Accept was served from the
\* cache.
C7_Witness ==
    /\ CacheHit
    /\ Has(HeadersOf(done.call.requestOptions), "Authorization")
    /\ Has(HeadersOf(done.call.requestOptions), "Accept")

\* C8: callers that all miss the cache each issue their own request, each
\* injects the token of its own response, and every completed fetch
\* overwrites the entry, so the entry is that of the fetch completed last.
C8_NoCoalescing ==
    /\ \A p \in Procs : call[p].pc = "fetching" => Len(call[p].sent) = 1
    /\ done.fetched =>
          /\ Len(done.call.sent) = 1
          /\ EntryOf(tokenCache, done.call.resource, done.call.clientId)
                = [present |-> TRUE, accessToken |-> done.data.access_token,
                   expiresOn |-> parseInt(done.data.expires_on)]
          /\ done.call.op = "authenticate" =>
                /\ done.result.kind = "returned"
                /\ done.result.value["headers"]["Authorization"]
                      = Bearer(done.data.access_token)

\* One caller's fetch completes over an entry another fetch stored, while
\* every other caller still awaits its own fetch for the same credential.
C8_Witness ==
    /\ done.fetched
    /\ done.call.op = "authenticate"
    /\ \A p \in Procs \ {done.proc} :
          /\ call[p].pc = "fetching"
          /\ call[p].op = "authenticate"
          /\ call[p].resource = done.call.resource
          /\ call[p].clientId = done.call.clientId

\* C9: a fetchToken invocation issues one request, to the protocol selected
\* at its start; when it fails the error is raised with no further request.
C9_SingleRequest ==
    /\ \A p \in Procs :
          call[p].pc = "fetching" =>
              /\ Len(call[p].sent) = 1
              /\ call[p].appService <=> ~IsProtocolB(call[p].sent[1])
    /\ (done.proc # 0 /\ done.call.sent # <<>>) =>
          /\ Len(done.call.sent) = 1
          /\ done.call.appService <=> ~IsProtocolB(done.call.sent[1])
          /\ ~done.fetched =>
                /\ done.result.kind = "thrown"
                /\ call[done.proc].pc = "idle"

\* A fetch failed on a status that is not ok.
C9_Witness ==
    /\ NotOkAnswered
    /\ done.status = 403
    /\ done.result.kind = "thrown"
    /\ Len(done.call.sent) = 1

\* The fetch of the finished execute call failed, or its token has not three
\* segments, or the payload of its token is no JSON.
ExecuteFetchFailed == done.call.op = "execute" /\ done.call.sent # <<>> /\ ~done.fetched
ExecuteDecodeFailed ==
    /\ done.call.op = "execute"
    /\ done.fetched
    /\ \/ Len(Split(done.data.access_token, ".")) # 3
       \/ done.data.access_token = JwtBadPayload

\* C10: in the validation flow every failure of the fetch and of the
\* decoding reaches the caller as one NodeOperationError whose message starts
\* with "Failed to acquire or decode managed identity token".
C10_OneErrorForBothCauses ==
    (ExecuteFetchFailed \/ ExecuteDecodeFailed) =>
        /\ done.result.kind = "thrown"
        /\ done.result.error.name = "NodeOperationError"
        /\ Head(done.result.error.message)
              = "Failed to acquire or decode managed identity token"

\* The validation flow failed on a token whose payload is no JSON.
C10_Witness ==
    /\ ExecuteDecodeFailed
    /\ done.data.access_token = JwtBadPayload
    /\ done.result.kind = "thrown"

\* The token does not split into three segments, or its middle segment does
\* not decode to JSON.
WrongSegmentCount(token) == Len(Split(token, ".")) # 3
PayloadNotJson(token) ==
    /\ ~WrongSegmentCount(token)
    /\ JsonParse(Base64UrlDecode(Split(token, ".")[2])).kind = "SyntaxError"

\* The finished execute call handed the token of its response to the decoder.
Decoded == done.call.op = "execute" /\ done.fetched

\* C11: the decoder fails with one and the same error kind for a token that
\* has not three segments and for a token whose middle segment is no
\* base64url JSON, and returns claims for neither.
C11_SameMalformedError ==
    (Decoded /\ (WrongSegmentCount(done.data.access_token)
                   \/ PayloadNotJson(done.data.access_token)))
        => LET dec == decodeJwtPayload(done.data.access_token)
           IN /\ ~dec.ok
              /\ dec.error.name = decodeJwtPayload(NotAJwt).error.name

\* Caller p's authenticate runs its cache lookup in this step; the call as it
\* is after the lookup; the lookup returned a token.
Looks(p) ==
    /\ call[p].pc = "idle"
    /\ \/ call'[p].pc = "fetching" /\ call'[p].op = "authenticate"
       \/ /\ done'.proc = p
          /\ done'.call.op = "authenticate"
          /\ done'.call.lookups = 1
LookedUp(p) == IF call'[p].pc = "fetching" THEN call'[p] ELSE done'.call
LookupHit(p) == call'[p].pc = "idle" /\ done'.result.kind = "returned"

\* The seconds the entry has left at the clock value, for a numeric expiry.
Remaining(entry, clock) == entry.expiresOn.n - clock
Numeric(entry) == entry.present /\ ~entry.expiresOn.nan

\* The cache but for the key is as it was.
OnlyKeyRemoved(key) ==
    /\ DOMAIN tokenCache' = DOMAIN tokenCache \ {key}
    /\ \A k \in DOMAIN tokenCache' : tokenCache'[k] = tokenCache[k]

\* C12: a lookup of an entry with more than 300 seconds left returns the
\* stored token and leaves the cache as it is; a lookup of an entry with
\* fewer than 300 seconds left, or expired, returns absent and removes that
\* entry and no other; a lookup of a key without entry returns absent and
\* changes nothing.
C12_LookupByLifetime ==
    [][\A p \in Procs : Looks(p) =>
          LET c == LookedUp(p)
              entry == EntryOf(tokenCache, c.resource, c.clientId)
          IN /\ ~entry.present => (~LookupHit(p) /\ tokenCache' = tokenCache)
             /\ (Numeric(entry) /\ Remaining(entry, now) > 300) =>
                   /\ LookupHit(p)
                   /\ done'.result.value["headers"]["Authorization"]
                         = Bearer(entry.accessToken)
                   /\ tokenCache' = tokenCache
             /\ (Numeric(entry) /\ Remaining(entry, now) < 300) =>
                   /\ ~LookupHit(p)
                   /\ OnlyKeyRemoved(getCacheKey(c.resource, c.clientId))]_vars

\* A lookup removed the stale entry of its key and left another key's entry.
C12_Witness ==
    \E p \in Procs :
        /\ call[p].pc = "fetching"
        /\ call[p].op = "authenticate"
        /\ ~call[p].absent
        /\ getCacheKey(call[p].resource, call[p].clientId) \notin DOMAIN tokenCache
        /\ DOMAIN tokenCache # {}

HasParam(req, name) == \E j \in DOMAIN req.params : req.params[j][1] = name

\* The request carries client_id, with the client id as its value, exactly
\* when the client id is not empty.
ClientIdParamOf(req, clientId) ==
    IF clientId # <<>>
    THEN HasParam(req, "client_id") /\ RequestParam(req, "client_id") = Str(clientId)
    ELSE ~HasParam(req, "client_id")

\* C13: under both protocols the token request has a client_id parameter
\* equal to clientId if and only if clientId is not empty.
C13_ClientIdOnlyWhenSet ==
    /\ \A p \in Procs : \A i \in DOMAIN call[p].sent :
          /\ IsProtocolB(call[p].sent[i]) \/ call[p].appService
          /\ ClientIdParamOf(call[p].sent[i], call[p].clientId)
    /\ \A i \in DOMAIN done.call.sent :
          ClientIdParamOf(done.call.sent[i], done.call.clientId)

\* A Protocol A request for a user-assigned identity is in flight.
C13_Witness ==
    \E p \in Procs :
        /\ call[p].pc = "fetching"
        /\ call[p].appService
        /\ call[p].clientId # <<>>
        /\ HasParam(call[p].sent[1], "client_id")

\* A Protocol B request for the system-assigned identity is in flight.
C13_WitnessSystemAssigned ==
    \E p \in Procs :
        /\ call[p].pc = "fetching"
        /\ IsProtocolB(call[p].sent[1])
        /\ call[p].clientId = <<>>

\* The payload of the token the finished execute call decoded.
DecodedClaims == decodeJwtPayload(done.data.access_token).claims.value

\* C14: in a successful validation run a claim that the payload lacks gives
\* no output field (no default is put in its place) and a claim the payload
\* has gives its output field, the plain claims as they are and iat, nbf and
\* exp as timestamps; each of the twelve fields on its own.
C14_AbsentClaimsStayAbsent ==
    ExecuteReturned =>
        LET out == done.result.value
        IN /\ \A f \in PlainFields :
                 IF Has(DecodedClaims, f[2])
                 THEN Has(out, f[1]) /\ out[f[1]] = DecodedClaims[f[2]]
                 ELSE ~Has(out, f[1])
           /\ \A f \in EpochFields :
                 IF Has(DecodedClaims, f[2])
                 THEN /\ Has(out, f[1])
                      /\ out[f[1]] = Str(toISOString(DecodedClaims[f[2]].n))
                 ELSE ~Has(out, f[1])
           /\ DOMAIN out \subseteq
                 {"success", "accessToken"} \cup {f[1] : f \in PlainFields \cup EpochFields}

\* A run on the payload with nbf, tid, appid and idtyp returned those four
\* and none of the other eight fields.
C14_Witness ==
    /\ ExecuteReturned
    /\ done.data.access_token = JwtTenant
    /\ DOMAIN done.result.value \ {"success", "accessToken"}
          = {"notBefore", "tenantId", "appId", "identityType"}
    /\ done.result.value["notBefore"]
          = Str(<<"1","9","7","0","-","0","1","-","0","1","T",
                  "0","0",":","0","0",":","0","1",".","0","0","0","Z">>)
    /\ done.result.value["tenantId"] = Str(<<"t">>)

\* The identity keys of the credentials in use.
IdentityKeys ==
    {getCacheKey(ResourceOf(c), ClientIdOf(c)) :
        c \in {d \in CredentialSet : Truthy(ResourceOf(d))}}

\* The entry for the key is the one of the response, every other entry is as
\* it was.
StoredOver(key, data) ==
    /\ DOMAIN tokenCache' = DOMAIN tokenCache \cup {key}
    /\ tokenCache'[key] = [accessToken |-> data.access_token,
                           expiresOn |-> parseInt(data.expires_on)]
    /\ \A k \in DOMAIN tokenCache \ {key} : tokenCache'[k] = tokenCache[k]

\* C15: the cache has at most one entry per identity key, and every
\* successful fetchToken replaces the entry of its key, whatever it was, by
\* the access_token it returns and the integer parsed from expires_on.
C15_LastWriteWins ==
    /\ [](/\ DOMAIN tokenCache \subseteq IdentityKeys
          /\ Cardinality(DOMAIN tokenCache) <= Cardinality(IdentityKeys))
    /\ [][done'.fetched =>
             StoredOver(getCacheKey(done'.call.resource, done'.call.clientId),
                        done'.data)]_vars

\* A fetch replaced an entry that had longer to live than the one it stored.
C15_Witness ==
    /\ done.fetched
    /\ Numeric(done.before)
    /\ ~parseInt(done.data.expires_on).nan
    /\ done.before.expiresOn.n > parseInt(done.data.expires_on).n
    /\ EntryOf(tokenCache, done.call.resource, done.call.clientId).expiresOn
          = parseInt(done.data.expires_on)

\* C16: a lookup that follows the store of its key at once (the clock has
\* not moved and nothing ran in between) returns the stored token when its
\* expiresOn is at least the margin away from now; otherwise it returns
\* absent and leaves no entry for the key.
C16_StoreThenLookup ==
    [][\A p \in Procs :
          (/\ done.fetched
           /\ Looks(p)
           /\ LookedUp(p).resource = done.call.resource
           /\ LookedUp(p).clientId = done.call.clientId
           /\ ~parseInt(done.data.expires_on).nan)
          => IF parseInt(done.data.expires_on).n - now >= TOKEN_REFRESH_MARGIN_S
             THEN /\ LookupHit(p)
                  /\ done'.result.value["headers"]["Authorization"]
                        = Bearer(done.data.access_token)
             ELSE /\ ~LookupHit(p)
                  /\ getCacheKey(done.call.resource, done.call.clientId)
                        \notin DOMAIN tokenCache']_vars

\* At clock 0 a lookup followed the store of an entry inside the margin: it
\* returned absent, the entry is gone and the call fetches.
C16_Witness ==
    \E p \in Procs :
        /\ call[p].pc = "fetching"
        /\ call[p].after.valid
        /\ call[p].after.at = 0
        /\ ~call[p].after.expiresOn.nan
        /\ call[p].after.expiresOn.n < TOKEN_REFRESH_MARGIN_S
        /\ getCacheKey(call[p].resource, call[p].clientId) \notin DOMAIN tokenCache

\* At clock 0 a lookup followed the store of an entry outside the margin and
\* returned its token.
C16_WitnessHit ==
    /\ CacheHit
    /\ done.call.after.valid
    /\ done.call.nowS = 0
    /\ done.result.value["headers"]["Authorization"] = Bearer(done.call.after.accessToken)

\* C17: a lookup of an entry with exactly 300 seconds left returns the token
\* and keeps the entry; a lookup deletes an entry and returns absent only
\* when strictly fewer than 300 seconds are left.
C17_BoundaryIsServed ==
    [][\A p \in Procs : Looks(p) =>
          LET c == LookedUp(p)
              key == getCacheKey(c.resource, c.clientId)
              entry == EntryOf(tokenCache, c.resource, c.clientId)
          IN /\ (Numeric(entry) /\ Remaining(entry, now) = 300) =>
                   /\ LookupHit(p)
                   /\ done'.result.value["headers"]["Authorization"]
                         = Bearer(entry.accessToken)
                   /\ key \in DOMAIN tokenCache'
                   /\ tokenCache'[key] = tokenCache[key]
             /\ (entry.present /\ (~LookupHit(p) \/ key \notin DOMAIN tokenCache')) =>
                   (Numeric(entry) /\ Remaining(entry, now) < 300)]_vars

\* A lookup returned the token of an entry with exactly 300 seconds left.
C17_Witness ==
    /\ CacheHit
    /\ Numeric(done.call.found)
    /\ Remaining(done.call.found, done.call.nowS) = 300
    /\ EntryOf(tokenCache, done.call.resource, done.call.clientId) = done.call.found

\* The (resource, clientId) pairs of the credentials in use.
IdentityPairs ==
    {<<ResourceOf(c), ClientIdOf(c)>> :
        c \in {d \in CredentialSet : Truthy(ResourceOf(d))}}

\* The call whose fetchToken stores, or whose lookup runs, in this step is
\* for the pair.
ActsFor(pair) ==
    \/ /\ done'.fetched
       /\ <<done'.call.resource, done'.call.clientId>> = pair
    \/ \E p \in Procs :
          Looks(p) /\ <<LookedUp(p).resource, LookedUp(p).clientId>> = pair

\* C18: the entries of distinct (resource, clientId) pairs are independent,
\* also for values that contain "|": a store or a stale eviction for one pair
\* leaves what a lookup finds for every other pair as it was.
C18_PairsIndependent ==
    [][\A pair \in IdentityPairs : \A other \in IdentityPairs \ {pair} :
          ActsFor(pair) =>
              EntryOf(tokenCache', other[1], other[2])
                 = EntryOf(tokenCache, other[1], other[2])]_vars

\* C19: the protocol is chosen anew from the environment at the start of
\* every fetchToken call: the request is that of the protocol the current
\* values of IDENTITY_ENDPOINT and IDENTITY_HEADER select, whatever protocol
\* an earlier fetch for the same credential used.
C19_ProtocolChosenPerFetch ==
    [][\A p \in Procs : Starts(p) =>
          /\ call'[p].appService <=> BothNonEmpty(env)
          /\ Len(call'[p].sent) = 1
          /\ IF call'[p].appService
             THEN IsProtocolA(call'[p].sent[1], env) /\ ~IsProtocolB(call'[p].sent[1])
             ELSE IsProtocolB(call'[p].sent[1])]_vars

\* A fetch is in flight under the other protocol than the fetch that filled
\* the entry of the same credential before the environment changed.
C19_Witness ==
    \E p \in Procs :
        /\ call[p].pc = "fetching"
        /\ call[p].after.valid
        /\ call[p].after.appService # call[p].appService
        /\ call[p].appService <=> ~IsProtocolB(call[p].sent[1])

\* The latest expiry a response of the model carries, and the clock values
\* from it on.
LatestExpiry ==
    LET numeric == {parseInt(e).n : e \in {x \in ExpiresOnValues : ~parseInt(x).nan}}
    IN CHOOSE m \in numeric : \A n \in numeric : n <= m
LaterClocks == LatestExpiry..(LatestExpiry + MaxNow)

\* C20: every entry fetchToken stores leaves the served set: whatever
\* expires_on the response carried, there is a clock value from which on
\* every lookup of its key returns absent.
C20_EveryEntryExpires ==
    \A pair \in IdentityPairs : \A clock \in LaterClocks :
        ~getCachedToken(tokenCache, pair[1], pair[2], clock).hit

\* The token is one the decoder turns down.
Undecodable(token) == ~decodeJwtPayload(token).ok

\* The finished execute call fetched a token and threw all the same: the
\* decoding of the token failed.
DecodeFailed == Decoded /\ done.result.kind = "thrown"

\* The entry the response body of the finished call makes.
EntryOfResponse ==
    [present |-> TRUE, accessToken |-> done.data.access_token,
     expiresOn |-> parseInt(done.data.expires_on)]

\* Caller p's authenticate looks up, in this step, the key of the call that
\* has just finished, whose entry has at least the margin left.
LooksUpFinishedKey(p) ==
    /\ Looks(p)
    /\ LookedUp(p).resource = done.call.resource
    /\ LookedUp(p).clientId = done.call.clientId
    /\ Numeric(EntryOf(tokenCache, done.call.resource, done.call.clientId))
    /\ Remaining(EntryOf(tokenCache, done.call.resource, done.call.clientId), now)
          >= TOKEN_REFRESH_MARGIN_S

\* The lookup of caller p returned the token and p's authenticate returned
\* with it as the Bearer token and without a request.
ServedFromCache(p, token) ==
    /\ LookupHit(p)
    /\ done'.call.sent = <<>>
    /\ ~done'.fetched
    /\ done'.result.value["headers"]["Authorization"] = Bearer(token)

\* C21: when the validation flow fails on a fetched token that cannot be
\* decoded, the cache entry of its resource and client id holds that token
\* all the same, and an authenticate call that follows for the same key while
\* the expiry is at least 300 seconds away injects it as the Bearer token
\* and makes no network call.
C21_UndecodableTokenIsCached ==
    [][/\ DecodeFailed' =>
             EntryOf(tokenCache', done'.call.resource, done'.call.clientId)
                 = EntryOfResponse'
       /\ \A p \in Procs :
             (DecodeFailed /\ LooksUpFinishedKey(p))
                 => ServedFromCache(p, done.data.access_token)]_vars

\* The validation flow has thrown on a token of one segment, which is now
\* the cache entry of its key with at least 300 seconds left, and the caller
\* is free to call authenticate.
C21_Witness ==
    /\ DecodeFailed
    /\ done.data.access_token = NotAJwt
    /\ Undecodable(done.data.access_token)
    /\ EntryOf(tokenCache, done.call.resource, done.call.clientId) = EntryOfResponse
    /\ Remaining(EntryOfResponse, now) >= TOKEN_REFRESH_MARGIN_S
    /\ call[done.proc].pc = "idle"

\* An authenticate call was served from the cache a token the decoder turns
\* down.
C21_WitnessInjected ==
    /\ CacheHit
    /\ Undecodable(done.call.found.accessToken)
    /\ done.result.value["headers"]["Authorization"] = Bearer(JwtBadPayload)

\* The call belongs to the validation flow and has a resource.
ExecuteWithResource(c) == c.op = "execute" /\ Truthy(c.resource)

\* C22: the validation flow never reads the cache: every execute call with a
\* non-empty resource makes no lookup and exactly one network call, also when
\* an entry with at least 300 seconds left is cached for its key; a
\* successful fetch replaces the entry of the key, and an authenticate call
\* that follows for the same key is served the replaced entry.
C22_ExecuteAlwaysFetches ==
    [][/\ \A p \in Procs :
             (call'[p].pc = "fetching" /\ ExecuteWithResource(call'[p])) =>
                 /\ call'[p].lookups = 0
                 /\ Len(call'[p].sent) = 1
                 /\ call[p].pc = "idle" => tokenCache' = tokenCache
       /\ (done'.proc # 0 /\ ExecuteWithResource(done'.call)) =>
             /\ done'.call.lookups = 0
             /\ Len(done'.call.sent) = 1
             /\ done'.fetched =>
                   EntryOf(tokenCache', done'.call.resource, done'.call.clientId)
                       = EntryOfResponse'
       /\ \A p \in Procs :
             (done.proc # 0 /\ ExecuteWithResource(done.call) /\ done.fetched
                 /\ LooksUpFinishedKey(p))
                 => ServedFromCache(p, done.data.access_token)]_vars

\* An execute call fetched although its key had an entry with at least 300
\* seconds left, and replaced that entry by another token that an
\* authenticate call can now be served.
C22_Witness ==
    /\ done.proc # 0
    /\ ExecuteWithResource(done.call)
    /\ done.fetched
    /\ Numeric(done.before)
    /\ Remaining(done.before, now) >= TOKEN_REFRESH_MARGIN_S
    /\ done.before.accessToken # done.data.access_token
    /\ Len(done.call.sent) = 1
    /\ EntryOf(tokenCache, done.call.resource, done.call.clientId) = EntryOfResponse
    /\ Remaining(EntryOfResponse, now) >= TOKEN_REFRESH_MARGIN_S
    /\ call[done.proc].pc = "idle"

\* The expiry of the response body of the finished call is a number inside
\* the margin at the present clock.
FetchedInsideMargin ==
    /\ done.fetched
    /\ ~parseInt(done.data.expires_on).nan
    /\ parseInt(done.data.expires_on).n - now < TOKEN_REFRESH_MARGIN_S

\* C23: an authenticate invocation makes no network call when its lookup
\* returns a token and exactly one when the lookup returns nothing; the token
\* of that one fetch goes into the Authorization header with no freshness
\* check, so a fetched token whose expires_on is already inside the
\* 300-second margin is injected all the same and the invocation ends
\* without a further fetch.
C23_AtMostOneFetchPerAuthenticate ==
    /\ \A p \in Procs :
          (call[p].pc = "fetching" /\ call[p].op = "authenticate") =>
              /\ call[p].lookups = 1
              /\ ~call[p].found.present
              /\ Len(call[p].sent) = 1
    /\ (done.proc # 0 /\ done.call.op = "authenticate" /\ done.call.lookups = 1) =>
          IF done.call.found.present
          THEN /\ done.call.sent = <<>>
               /\ ~done.fetched
               /\ done.result.kind = "returned"
          ELSE /\ Len(done.call.sent) = 1
               /\ done.fetched =>
                     /\ done.result.kind = "returned"
                     /\ done.result.value["headers"]["Authorization"]
                           = Bearer(done.data.access_token)
                     /\ call[done.proc].pc = "idle"

\* An authenticate call fetched a token whose expiry was already inside the
\* margin, injected it and ended after its one request.
C23_Witness ==
    /\ AuthReturned
    /\ FetchedInsideMargin
    /\ Len(done.call.sent) = 1
    /\ done.result.value["headers"]["Authorization"] = Bearer(done.data.access_token)
    /\ call[done.proc].pc = "idle"

\* An authenticate call was served by its lookup and made no request.
C23_WitnessHit ==
    /\ CacheHit
    /\ done.call.found.present
    /\ done.call.sent = <<>>

\* An authenticate call ends in this step by throwing.
AuthenticateFails ==
    /\ done'.proc # 0
    /\ done'.call.op = "authenticate"
    /\ done'.result.kind = "thrown"

\* C24: when authenticate fails (empty resource, response that is not a
\* success, transport error), no request with an added or replaced
\* Authorization header comes out of it and the failing step writes nothing
\* to the cache; the one cache change a failing authenticate can make is the
\* removal, by its lookup, of the stale entry of its own key.
C24_FailureLeavesRequestAndCache ==
    [][/\ AuthenticateFails =>
             /\ tokenCache' = tokenCache
             /\ done'.result.value = <<>>
             /\ ~done'.fetched
             /\ \/ ~Truthy(done'.call.resource) /\ done'.call.lookups = 0
                \/ Len(done'.call.sent) = 1
       /\ \A p \in Procs : (Looks(p) /\ ~LookupHit(p)) =>
             LET c == LookedUp(p)
                 entry == EntryOf(tokenCache, c.resource, c.clientId)
             IN \/ tokenCache' = tokenCache
                \/ /\ Numeric(entry)
                   /\ Remaining(entry, now) < TOKEN_REFRESH_MARGIN_S
                   /\ OnlyKeyRemoved(getCacheKey(c.resource, c.clientId))]_vars

\* An authenticate call whose request had an Authorization header failed on
\* a response that is not ok, after its lookup had removed the stale entry
\* of its key, while the entry of another key stays.
C24_Witness ==
    /\ done.call.op = "authenticate"
    /\ done.result.kind = "thrown"
    /\ NotOkAnswered
    /\ done.call.lookups = 1
    /\ ~done.call.absent
    /\ Has(done.call.requestOptions, "headers")
    /\ getCacheKey(done.call.resource, done.call.clientId) \notin DOMAIN tokenCache
    /\ DOMAIN tokenCache # {}

\* An authenticate call failed on a transport error; one failed on an empty
\* resource.
C24_WitnessTransport ==
    /\ done.proc # 0
    /\ done.call.op = "authenticate"
    /\ done.result.kind = "thrown"
    /\ done.status = 0
    /\ Len(done.call.sent) = 1
    /\ done.result.error.name = "TypeError"
C24_WitnessEmptyResource ==
    /\ done.proc # 0
    /\ done.call.op = "authenticate"
    /\ done.result.kind = "thrown"
    /\ ~Truthy(done.call.resource)
    /\ DOMAIN tokenCache # {}

====
